---- MODULE Spec2Model ----
(***************************************************************************)
(* Invoice lifecycle of invoice-manager-internal: the handlers of          *)
(* server/src/handlers/invoices.ts, clients.ts (deleteClient) and          *)
(* items.ts (deleteItem) over the relations of server/src/db/schema.ts.    *)
(*                                                                         *)
(* Every handler is a sequence of awaited statements, each executed by the *)
(* database as one atomic statement; no handler opens a transaction.  One  *)
(* action of the model is one awaited statement together with the          *)
(* synchronous code that follows it up to the next await.                  *)
(*                                                                         *)
(* Numbers.  quantity is kept in hundredths, money in cents.  JavaScript   *)
(* computes on the unrounded values, sends them as decimal strings, and    *)
(* a numeric(10,2) column rounds them half away from zero; the model       *)
(* carries the unrounded values as integers of a finer unit and rounds     *)
(* where the column does.  Binary floating-point drift is not modelled.    *)
(***************************************************************************)
EXTENDS Integers, Sequences, FiniteSets, TLC

\* ---------------------------------------------------------------- bounds
NumProcs == 2
NumClients == 2
NumItems == 2
MaxInvoiceId == 2
MaxMonth == 2
MaxCalls == 3
MaxSeqCalls == 4

Procs == 1..NumProcs
ClientIds == 1..NumClients
ItemIds == 1..NumItems
InvoiceIds == 1..MaxInvoiceId

NoValue == 0 - 1

\* notes: z.string().nullable(): null; the strings are 1, 2, ...
NullNotes == 0

Statuses == {"draft", "sent", "paid", "overdue"}

VARIABLES
    clients,        \* ids of the rows of clientsTable
    items,          \* ids of the rows of itemsTable
    invoices,       \* rows of invoicesTable
    invoice_items,  \* rows of invoiceItemsTable, in insertion order
    nextInvoiceId,  \* the serial of invoicesTable.id
    now,            \* the calendar month of the clock
    call,           \* per request slot: the handler running, its position and locals
    calls,          \* number of requests received so far
    lastCreated     \* invoice_number returned by the latest request, when that
                    \* request was a successful createInvoice; else <<>>

vars == <<clients, items, invoices, invoice_items, nextInvoiceId, now, call, calls, lastCreated>>

\* ------------------------------------------------------- pure functions

RECURSIVE toDigits(_)
\* Number.prototype.toString of a non-negative integer, as its decimal digits
toDigits(n) == IF n < 10 THEN <<n>> ELSE Append(toDigits(n \div 10), n % 10)

RECURSIVE padStart(_, _)
\* String.prototype.padStart(len, '0')
padStart(s, len) == IF Len(s) >= len THEN s ELSE padStart(<<0>> \o s, len)

RECURSIVE parseInt(_)
\* parseInt(s, 10) of a string of decimal digits
parseInt(s) == IF Len(s) = 0 THEN 0
               ELSE 10 * parseInt(SubSeq(s, 1, Len(s) - 1)) + s[Len(s)]

RECURSIVE StrLess(_, _)
\* a < b as character strings (the order of ORDER BY on a varchar)
StrLess(a, b) ==
    IF Len(b) = 0 THEN FALSE
    ELSE IF Len(a) = 0 THEN TRUE
    ELSE IF a[1] # b[1] THEN a[1] < b[1]
    ELSE StrLess(Tail(a), Tail(b))

\* an invoice_number `INV-${yearMonth}-${suffix}`: its month and its suffix string
InvoiceNumber(ym, n) == [prefix |-> ym, suffix |-> padStart(toDigits(n), 4)]

\* rounding of n/d to an integer, half away from zero: what a numeric(p,2)
\* column does to the decimal string it is handed
Numeric2(n, d) == IF n >= 0 THEN (2 * n + d) \div (2 * d)
                  ELSE 0 - ((2 * (0 - n) + d) \div (2 * d))

RECURSIVE SumProducts(_)
\* input.items.reduce((sum, item) => sum + item.quantity * item.unit_price, 0),
\* in units of 1/10000
SumProducts(its) == IF Len(its) = 0 THEN 0
                    ELSE its[1].quantity * its[1].unit_price + SumProducts(Tail(its))

\* discountedSubtotal = subtotal - discount, in units of 1/10000
DiscountedSubtotal(its, discount) == SumProducts(its) - 100 * discount

\* the row values of subtotal, tax_amount and total_amount, in cents
SubtotalOf(its) == Numeric2(SumProducts(its), 100)
TaxAmountOf(its, discount) == Numeric2(DiscountedSubtotal(its, discount) * 11, 10000)
TotalAmountOf(its, discount) == Numeric2(DiscountedSubtotal(its, discount) * 111, 10000)

\* input.items.map(item => ({invoice_id, item_id, quantity, unit_price, line_total}))
InvoiceItemsData(id, its) ==
    [k \in 1..Len(its) |->
        [invoice_id |-> id, item_id |-> its[k].item_id, quantity |-> its[k].quantity,
         unit_price |-> its[k].unit_price,
         line_total |-> Numeric2(its[k].quantity * its[k].unit_price, 100)]]

ItemsMissing_Never(its) == FALSE

\* items.length !== itemIds.length, for the rows `inArray(itemsTable.id, itemIds)` selects
ItemsMissing(its) ==
    Cardinality({i \in items : \E k \in 1..Len(its) : its[k].item_id = i}) # Len(its)

SuffixesOf_AnyPrefix(ym) == {inv.invoice_number.suffix : inv \in invoices}

\* the suffixes of the stored numbers that match LIKE `${prefix}%`
SuffixesOf(ym) == {inv.invoice_number.suffix : inv \in {i \in invoices : i.invoice_number.prefix = ym}}

NextNumber_FromSerial(ym) == nextInvoiceId

NextNumber_SkipOne(ym) ==
    IF SuffixesOf(ym) = {} THEN 1
    ELSE parseInt(CHOOSE s \in SuffixesOf(ym) : \A t \in SuffixesOf(ym) : ~StrLess(s, t)) + 2

\* ORDER BY invoice_number DESC LIMIT 1, then lastNumber + 1, or 1 when no row matches
NextNumber(ym) ==
    IF SuffixesOf(ym) = {} THEN 1
    ELSE parseInt(CHOOSE s \in SuffixesOf(ym) : \A t \in SuffixesOf(ym) : ~StrLess(s, t)) + 1

UniqueViolation_NoConstraint(number) == FALSE

\* the unique constraint of invoicesTable.invoice_number rejects the insert
UniqueViolation(number) == \E inv \in invoices : inv.invoice_number = number

\* rows of invoiceItemsTable WHERE invoice_id = id
ItemsOfInvoice(id) == SelectSeq(invoice_items, LAMBDA l : l.invoice_id = id)

\* DELETE FROM invoice_items WHERE invoice_id = id
WithoutItemsOf(id) == SelectSeq(invoice_items, LAMBDA l : l.invoice_id # id)

\* the decimal digit d as a character
DigitChar(d) == <<"0", "1", "2", "3", "4", "5", "6", "7", "8", "9">>[d + 1]

\* `INV-${year}${month}-${suffix}` as characters; the months of the model are
\* the months 01, 02, ... of 2026
Text(number) ==
    <<"I", "N", "V", "-", "2", "0", "2", "6", "0", DigitChar(number.prefix), "-">>
    \o [k \in 1..Len(number.suffix) |-> DigitChar(number.suffix[k])]

\* clientsTable.name of the rows the store starts with
ClientName(id) == IF id = 1 THEN <<"A", "b">> ELSE <<"X", "y">>

\* text LIKE `%${pattern}%` for a pattern of letters and digits: pattern occurs in text
Like(text, pattern) ==
    \E i \in 0..(Len(text) - Len(pattern)) : SubSeq(text, i + 1, i + Len(pattern)) = pattern

RECURSIVE OrderByCreatedAtDesc(_)
\* the rows ordered by created_at descending: rows are created in the order of their ids
OrderByCreatedAtDesc(rows) ==
    IF rows = {} THEN <<>>
    ELSE LET first == CHOOSE r \in rows : \A o \in rows : o.id <= r.id
         IN <<first>> \o OrderByCreatedAtDesc(rows \ {first})

\* a filter with no criterion: status undefined, client_id undefined, and search
\* undefined or '', which the handler does not tell apart
NoFilter == [status |-> "undefined", client_id |-> NoValue, search |-> <<>>]

\* the rows getInvoices selects: a condition is pushed for each truthy criterion
FilteredInvoices(filter) ==
    {inv \in invoices :
        /\ filter.status # "undefined" => inv.status = filter.status
        /\ filter.client_id \notin {NoValue, 0} => inv.client_id = filter.client_id
        /\ filter.search # <<>> =>
              \/ Like(Text(inv.invoice_number), filter.search)
              \/ inv.client_id \in clients /\ Like(ClientName(inv.client_id), filter.search)}

RECURSIVE SumTotalAmount(_)
\* sum(invoicesTable.total_amount) over rows; null, read as 0, over no row
SumTotalAmount(rows) ==
    IF rows = {} THEN 0
    ELSE LET r == CHOOSE x \in rows : TRUE
         IN r.total_amount + SumTotalAmount(rows \ {r})

\* .limit(10)
RecentLimit == 10

\* the first n elements of a sequence
Limit(seq, n) == SubSeq(seq, 1, IF Len(seq) < n THEN Len(seq) ELSE n)

\* invoices inner join clients, order by created_at desc, limit 10
RecentInvoices ==
    Limit(OrderByCreatedAtDesc({inv \in invoices : inv.client_id \in clients}), RecentLimit)

\* ------------------------------------------------------------- requests

Idle == [op |-> "none", pc |-> "idle", outcome |-> "none", id |-> NoValue,
         client_id |-> NoValue, discount |-> NoValue, items |-> <<>>, has_items |-> FALSE,
         status |-> "draft", ym |-> NoValue, number |-> NoValue,
         existing_discount |-> NoValue, existing_client |-> NoValue, notes |-> NoValue,
         invoice_date |-> NoValue, due_date |-> NoValue,
         filter |-> NoFilter, result |-> <<>>,
         total_invoices |-> NoValue, total_amount |-> NoValue,
         paid_amount |-> NoValue, overdue_count |-> NoValue]

AtRest(p) == call[p].pc \in {"idle", "done"}

\* a request is received by the first free slot; with alone = TRUE only when no
\* other request runs
Receive(p, alone) ==
    /\ AtRest(p)
    /\ \A q \in Procs : q < p => ~AtRest(q)
    /\ alone => \A q \in Procs : AtRest(q)
    /\ calls < (IF alone THEN MaxSeqCalls ELSE MaxCalls)
    /\ calls' = calls + 1

\* the createInvoice requests that have not yet drawn an id from the serial
Creating == {q \in Procs : call[q].pc \in {"c_items", "c_number", "c_insert"}}

\* the handler returns or throws: its locals are gone, its input and result remain
Return(p, c, outcome) ==
    call' = [call EXCEPT ![p] = [Idle EXCEPT !.op = c.op, !.pc = "done", !.outcome = outcome,
                                             !.id = c.id, !.items = c.items,
                                             !.has_items = c.has_items,
                                             !.status = c.status]]

\* the handler returns a value: it stays in the finished slot with the input
ReturnValue(p, c) == call' = [call EXCEPT ![p] = [c EXCEPT !.pc = "done", !.outcome = "ok"]]

Goto(p, c, pc) == call' = [call EXCEPT ![p] = [c EXCEPT !.pc = pc]]

Init ==
    /\ clients = ClientIds
    /\ items = ItemIds
    /\ invoices = {}
    /\ invoice_items = <<>>
    /\ nextInvoiceId = 1
    /\ now = 1
    /\ call = [p \in Procs |-> Idle]
    /\ calls = 0
    /\ lastCreated = <<>>

\* ------------------------------------------------------------ the clock

\* the calendar month advances
Tick ==
    /\ now < MaxMonth
    /\ now' = now + 1
    /\ UNCHANGED <<clients, items, invoices, invoice_items, nextInvoiceId, call, calls, lastCreated>>

\* -------------------------------------------------------- createInvoice

\* select the client; throw 'Client not found' when there is no row
createInvoice_selectClient(p, alone, inputs) ==
    /\ Receive(p, alone)
    /\ nextInvoiceId + Cardinality(Creating) <= MaxInvoiceId
    /\ \E input \in inputs :
        LET c == [Idle EXCEPT !.op = "createInvoice", !.client_id = input.client_id,
                              !.discount = input.discount, !.items = input.items,
                              !.has_items = TRUE, !.notes = input.notes,
                              !.invoice_date = input.invoice_date,
                              !.due_date = input.due_date]
        IN IF input.client_id \notin clients
           THEN Return(p, c, "Client not found")
           ELSE Goto(p, c, "c_items")
    /\ UNCHANGED <<clients, items, invoices, invoice_items, nextInvoiceId, now, lastCreated>>

\* select the items; throw 'One or more items not found' on a count mismatch;
\* then `now = new Date()` fixes the prefix
createInvoice_selectItems(p) ==
    /\ call[p].pc = "c_items"
    /\ IF ItemsMissing(call[p].items)
       THEN Return(p, call[p], "One or more items not found")
       ELSE Goto(p, [call[p] EXCEPT !.ym = now], "c_number")
    /\ UNCHANGED <<clients, items, invoices, invoice_items, nextInvoiceId, now, calls, lastCreated>>

\* select the last invoice_number of the month and derive invoiceNumber
createInvoice_selectLast(p) ==
    /\ call[p].pc = "c_number"
    /\ Goto(p, [call[p] EXCEPT !.number = NextNumber(call[p].ym)], "c_insert")
    /\ UNCHANGED <<clients, items, invoices, invoice_items, nextInvoiceId, now, calls, lastCreated>>

\* the row createInvoice inserts into invoicesTable
NewInvoice(c) ==
    [id |-> nextInvoiceId,
     invoice_number |-> InvoiceNumber(c.ym, c.number),
     client_id |-> c.client_id,
     subtotal |-> SubtotalOf(c.items),
     discount |-> c.discount,
     tax_amount |-> TaxAmountOf(c.items, c.discount),
     total_amount |-> TotalAmountOf(c.items, c.discount),
     status |-> "draft",
     notes |-> c.notes,
     invoice_date |-> c.invoice_date,
     due_date |-> c.due_date]

\* insert the invoice row; the unique constraint may reject it
createInvoice_insertInvoice(p) ==
    /\ call[p].pc = "c_insert"
    /\ nextInvoiceId' = nextInvoiceId + 1
    /\ IF UniqueViolation(InvoiceNumber(call[p].ym, call[p].number))
       THEN /\ Return(p, call[p], "duplicate key")
            /\ UNCHANGED invoices
       ELSE /\ invoices' = invoices \cup {NewInvoice(call[p])}
            /\ Goto(p, [call[p] EXCEPT !.id = nextInvoiceId], "c_lines")
    /\ UNCHANGED <<clients, items, invoice_items, now, calls, lastCreated>>

\* insert the invoice items and return the invoice
createInvoice_insertItems(p) ==
    /\ call[p].pc = "c_lines"
    /\ invoice_items' = invoice_items \o InvoiceItemsData(call[p].id, call[p].items)
    /\ Return(p, call[p], "ok")
    /\ lastCreated' = IF \E inv \in invoices : inv.id = call[p].id
                      THEN (CHOOSE inv \in invoices : inv.id = call[p].id).invoice_number
                      ELSE <<>>
    /\ UNCHANGED <<clients, items, invoices, nextInvoiceId, now, calls>>

\* -------------------------------------------------------- updateInvoice

\* where updateInvoice continues after the client check
AfterClient(c) == IF c.has_items THEN "u_items" ELSE "u_update"

\* select the invoice; throw 'Invoice not found' when there is no row
updateInvoice_selectInvoice(p, alone, inputs) ==
    /\ Receive(p, alone)
    /\ \E input \in inputs :
        LET c == [Idle EXCEPT !.op = "updateInvoice", !.id = input.id,
                              !.client_id = input.client_id, !.discount = input.discount,
                              !.items = input.items, !.has_items = input.has_items,
                              !.notes = input.notes, !.invoice_date = input.invoice_date,
                              !.due_date = input.due_date]
        IN IF ~\E inv \in invoices : inv.id = input.id
           THEN Return(p, c, "Invoice not found")
           ELSE LET existingInvoice == CHOOSE inv \in invoices : inv.id = input.id
                    e == [c EXCEPT !.existing_client = existingInvoice.client_id,
                                   !.existing_discount = existingInvoice.discount]
                IN IF /\ input.client_id # NoValue
                      /\ input.client_id # 0
                      /\ input.client_id # existingInvoice.client_id
                   THEN Goto(p, e, "u_client")
                   ELSE Goto(p, e, AfterClient(e))
    /\ lastCreated' = <<>>
    /\ UNCHANGED <<clients, items, invoices, invoice_items, nextInvoiceId, now>>

\* select the new client; throw 'Client not found' when there is no row
updateInvoice_selectClient(p) ==
    /\ call[p].pc = "u_client"
    /\ IF call[p].client_id \notin clients
       THEN Return(p, call[p], "Client not found")
       ELSE Goto(p, call[p], AfterClient(call[p]))
    /\ UNCHANGED <<clients, items, invoices, invoice_items, nextInvoiceId, now, calls, lastCreated>>

updateInvoice_selectItems_DeleteFirst(p) ==
    /\ call[p].pc = "u_items"
    /\ invoice_items' = WithoutItemsOf(call[p].id)
    /\ IF ItemsMissing(call[p].items)
       THEN Return(p, call[p], "One or more items not found")
       ELSE Goto(p, call[p], "u_insert")
    /\ UNCHANGED <<clients, items, invoices, nextInvoiceId, now, calls, lastCreated>>

\* select the items; throw 'One or more items not found' on a count mismatch
updateInvoice_selectItems(p) ==
    /\ call[p].pc = "u_items"
    /\ IF ItemsMissing(call[p].items)
       THEN Return(p, call[p], "One or more items not found")
       ELSE Goto(p, call[p], "u_delete")
    /\ UNCHANGED <<clients, items, invoices, invoice_items, nextInvoiceId, now, calls, lastCreated>>

\* delete the existing invoice items
updateInvoice_deleteItems(p) ==
    /\ call[p].pc = "u_delete"
    /\ invoice_items' = WithoutItemsOf(call[p].id)
    /\ Goto(p, call[p], "u_insert")
    /\ UNCHANGED <<clients, items, invoices, nextInvoiceId, now, calls, lastCreated>>

\* insert the new invoice items
updateInvoice_insertItems(p) ==
    /\ call[p].pc = "u_insert"
    /\ invoice_items' = invoice_items \o InvoiceItemsData(call[p].id, call[p].items)
    /\ Goto(p, call[p], "u_update")
    /\ UNCHANGED <<clients, items, invoices, nextInvoiceId, now, calls, lastCreated>>

DiscountUsed_Zero(c) == IF c.discount # NoValue THEN c.discount ELSE 0

\* discount = input.discount !== undefined ? input.discount : parseFloat(existingInvoice.discount)
DiscountUsed(c) == IF c.discount # NoValue THEN c.discount ELSE c.existing_discount

UpdatedInvoice_StaleSubtotal(inv, c) ==
    [inv EXCEPT
        !.client_id = IF c.client_id # NoValue THEN c.client_id ELSE @,
        !.invoice_date = IF c.invoice_date # NoValue THEN c.invoice_date ELSE @,
        !.due_date = IF c.due_date # NoValue THEN c.due_date ELSE @,
        !.notes = IF c.notes # NoValue THEN c.notes ELSE @,
        !.discount = IF c.has_items THEN DiscountUsed(c)
                     ELSE IF c.discount # NoValue THEN c.discount ELSE @,
        !.tax_amount = IF c.has_items THEN TaxAmountOf(c.items, DiscountUsed(c)) ELSE @,
        !.total_amount = IF c.has_items THEN TotalAmountOf(c.items, DiscountUsed(c)) ELSE @]

UpdatedInvoice_NotesCleared(inv, c) ==
    [inv EXCEPT
        !.client_id = IF c.client_id # NoValue THEN c.client_id ELSE @,
        !.invoice_date = IF c.invoice_date # NoValue THEN c.invoice_date ELSE @,
        !.due_date = IF c.due_date # NoValue THEN c.due_date ELSE @,
        !.notes = IF c.notes # NoValue THEN c.notes ELSE NullNotes,
        !.discount = IF c.has_items THEN DiscountUsed(c)
                     ELSE IF c.discount # NoValue THEN c.discount ELSE @,
        !.subtotal = IF c.has_items THEN SubtotalOf(c.items) ELSE @,
        !.tax_amount = IF c.has_items THEN TaxAmountOf(c.items, DiscountUsed(c)) ELSE @,
        !.total_amount = IF c.has_items THEN TotalAmountOf(c.items, DiscountUsed(c)) ELSE @]

\* the row after `.set(updateData)`
UpdatedInvoice(inv, c) ==
    [inv EXCEPT
        !.client_id = IF c.client_id # NoValue THEN c.client_id ELSE @,
        !.invoice_date = IF c.invoice_date # NoValue THEN c.invoice_date ELSE @,
        !.due_date = IF c.due_date # NoValue THEN c.due_date ELSE @,
        !.notes = IF c.notes # NoValue THEN c.notes ELSE @,
        !.discount = IF c.has_items THEN DiscountUsed(c)
                     ELSE IF c.discount # NoValue THEN c.discount ELSE @,
        !.subtotal = IF c.has_items THEN SubtotalOf(c.items) ELSE @,
        !.tax_amount = IF c.has_items THEN TaxAmountOf(c.items, DiscountUsed(c)) ELSE @,
        !.total_amount = IF c.has_items THEN TotalAmountOf(c.items, DiscountUsed(c)) ELSE @]

\* update the invoice row; with no row left, `invoice.subtotal` of undefined throws
updateInvoice_update(p) ==
    /\ call[p].pc = "u_update"
    /\ IF \E inv \in invoices : inv.id = call[p].id
       THEN /\ invoices' = {IF inv.id = call[p].id THEN UpdatedInvoice(inv, call[p]) ELSE inv :
                            inv \in invoices}
            /\ Return(p, call[p], "ok")
       ELSE /\ UNCHANGED invoices
            /\ Return(p, call[p], "TypeError")
    /\ UNCHANGED <<clients, items, invoice_items, nextInvoiceId, now, calls, lastCreated>>

\* -------------------------------------------------- updateInvoiceStatus

updateInvoiceStatus_OnlyForward(p, alone, inputs) ==
    /\ Receive(p, alone)
    /\ \E input \in inputs :
        LET c == [Idle EXCEPT !.op = "updateInvoiceStatus", !.id = input.id,
                              !.status = input.status]
        IN IF \E inv \in invoices : inv.id = input.id /\ inv.status = "paid"
           THEN UNCHANGED invoices /\ Return(p, c, "Invalid status transition")
           ELSE /\ invoices' = {IF inv.id = input.id THEN [inv EXCEPT !.status = input.status]
                                ELSE inv : inv \in invoices}
                /\ IF \E inv \in invoices : inv.id = input.id
                   THEN Return(p, c, "ok")
                   ELSE Return(p, c, "Invoice not found")
    /\ lastCreated' = <<>>
    /\ UNCHANGED <<clients, items, invoice_items, nextInvoiceId, now>>

\* update status where id; throw 'Invoice not found' when no row is returned
updateInvoiceStatus(p, alone, inputs) ==
    /\ Receive(p, alone)
    /\ \E input \in inputs :
        LET c == [Idle EXCEPT !.op = "updateInvoiceStatus", !.id = input.id,
                              !.status = input.status]
        IN /\ invoices' = {IF inv.id = input.id THEN [inv EXCEPT !.status = input.status]
                           ELSE inv : inv \in invoices}
           /\ IF \E inv \in invoices : inv.id = input.id
              THEN Return(p, c, "ok")
              ELSE Return(p, c, "Invoice not found")
    /\ lastCreated' = <<>>
    /\ UNCHANGED <<clients, items, invoice_items, nextInvoiceId, now>>

\* -------------------------------------------------------- deleteInvoice

\* delete the invoice items of the invoice
deleteInvoice_deleteItems(p, alone, ids) ==
    /\ Receive(p, alone)
    /\ \E id \in ids :
        /\ invoice_items' = WithoutItemsOf(id)
        /\ Goto(p, [Idle EXCEPT !.op = "deleteInvoice", !.id = id], "d_invoice")
    /\ lastCreated' = <<>>
    /\ UNCHANGED <<clients, items, invoices, nextInvoiceId, now>>

deleteInvoice_deleteInvoice_Throws(p) ==
    /\ call[p].pc = "d_invoice"
    /\ invoices' = {inv \in invoices : inv.id # call[p].id}
    /\ IF \E inv \in invoices : inv.id = call[p].id
       THEN Return(p, call[p], "success")
       ELSE Return(p, call[p], "Invoice not found")
    /\ UNCHANGED <<clients, items, invoice_items, nextInvoiceId, now, calls, lastCreated>>

\* delete the invoice row; success is whether a row was deleted
deleteInvoice_deleteInvoice(p) ==
    /\ call[p].pc = "d_invoice"
    /\ invoices' = {inv \in invoices : inv.id # call[p].id}
    /\ IF \E inv \in invoices : inv.id = call[p].id
       THEN Return(p, call[p], "success")
       ELSE Return(p, call[p], "no success")
    /\ UNCHANGED <<clients, items, invoice_items, nextInvoiceId, now, calls, lastCreated>>

\* --------------------------------------------------------- deleteClient

\* count the invoices of the client; throw when there is any
deleteClient_count(p, alone, ids) ==
    /\ Receive(p, alone)
    /\ \E id \in ids :
        LET c == [Idle EXCEPT !.op = "deleteClient", !.id = id]
        IN IF \E inv \in invoices : inv.client_id = id
           THEN Return(p, c, "Cannot delete client with existing invoices")
           ELSE Goto(p, c, "k_delete")
    /\ UNCHANGED <<clients, items, invoices, invoice_items, nextInvoiceId, now, lastCreated>>

\* delete the client row; throw 'not found' when no row was deleted
deleteClient_delete(p) ==
    /\ call[p].pc = "k_delete"
    /\ clients' = clients \ {call[p].id}
    /\ IF call[p].id \in clients
       THEN Return(p, call[p], "success")
       ELSE Return(p, call[p], "Client not found")
    /\ UNCHANGED <<items, invoices, invoice_items, nextInvoiceId, now, calls, lastCreated>>

\* ----------------------------------------------------------- deleteItem

\* select the invoice items that use the item; throw when there is any
deleteItem_select(p, alone, ids) ==
    /\ Receive(p, alone)
    /\ \E id \in ids :
        LET c == [Idle EXCEPT !.op = "deleteItem", !.id = id]
        IN IF \E k \in 1..Len(invoice_items) : invoice_items[k].item_id = id
           THEN Return(p, c, "Cannot delete item that is used in invoices")
           ELSE Goto(p, c, "i_delete")
    /\ UNCHANGED <<clients, items, invoices, invoice_items, nextInvoiceId, now, lastCreated>>

\* delete the item row; throw 'not found' when no row was deleted
deleteItem_delete(p) ==
    /\ call[p].pc = "i_delete"
    /\ items' = items \ {call[p].id}
    /\ IF call[p].id \in items
       THEN Return(p, call[p], "success")
       ELSE Return(p, call[p], "Item not found")
    /\ UNCHANGED <<clients, invoices, invoice_items, nextInvoiceId, now, calls, lastCreated>>

\* ---------------------------------------------------------------- reads

\* select the invoice where id; null when there is no row
getInvoiceById(p, alone, ids) ==
    /\ Receive(p, alone)
    /\ \E id \in ids :
        LET c == [Idle EXCEPT !.op = "getInvoiceById", !.id = id]
        IN IF \E inv \in invoices : inv.id = id
           THEN Return(p, c, "invoice")
           ELSE Return(p, c, "null")
    /\ UNCHANGED <<clients, items, invoices, invoice_items, nextInvoiceId, now, lastCreated>>

\* select the invoice items where invoice_id, in the order of created_at
getInvoiceItems(p, alone, ids) ==
    /\ Receive(p, alone)
    /\ \E id \in ids :
        LET c == [Idle EXCEPT !.op = "getInvoiceItems", !.id = id]
        IN IF ItemsOfInvoice(id) = <<>>
           THEN Return(p, c, "empty list")
           ELSE Return(p, c, "rows")
    /\ UNCHANGED <<clients, items, invoices, invoice_items, nextInvoiceId, now, lastCreated>>

\* select the invoices that meet the conditions, ordered by created_at descending
getInvoices(p, alone, filters) ==
    /\ Receive(p, alone)
    /\ \E filter \in filters :
        ReturnValue(p, [Idle EXCEPT !.op = "getInvoices", !.filter = filter,
                                    !.result = OrderByCreatedAtDesc(FilteredInvoices(filter))])
    /\ UNCHANGED <<clients, items, invoices, invoice_items, nextInvoiceId, now, lastCreated>>

\* ---------------------------------------------------- getDashboardSummary

\* select count() from invoices
getDashboardSummary_count(p, alone) ==
    /\ Receive(p, alone)
    /\ Goto(p, [Idle EXCEPT !.op = "getDashboardSummary",
                            !.total_invoices = Cardinality(invoices)], "s_total")
    /\ UNCHANGED <<clients, items, invoices, invoice_items, nextInvoiceId, now, lastCreated>>

\* select sum(total_amount) from invoices
getDashboardSummary_total(p) ==
    /\ call[p].pc = "s_total"
    /\ Goto(p, [call[p] EXCEPT !.total_amount = SumTotalAmount(invoices)], "s_paid")
    /\ UNCHANGED <<clients, items, invoices, invoice_items, nextInvoiceId, now, calls, lastCreated>>

getDashboardSummary_paid_AnyStatus(p) ==
    /\ call[p].pc = "s_paid"
    /\ Goto(p, [call[p] EXCEPT !.paid_amount = SumTotalAmount(invoices)], "s_overdue")
    /\ UNCHANGED <<clients, items, invoices, invoice_items, nextInvoiceId, now, calls, lastCreated>>

\* select sum(total_amount) from invoices where status = 'paid'
getDashboardSummary_paid(p) ==
    /\ call[p].pc = "s_paid"
    /\ Goto(p, [call[p] EXCEPT
                  !.paid_amount = SumTotalAmount({inv \in invoices : inv.status = "paid"})],
            "s_overdue")
    /\ UNCHANGED <<clients, items, invoices, invoice_items, nextInvoiceId, now, calls, lastCreated>>

\* select count() from invoices where status = 'overdue'
getDashboardSummary_overdue(p) ==
    /\ call[p].pc = "s_overdue"
    /\ Goto(p, [call[p] EXCEPT
                  !.overdue_count = Cardinality({inv \in invoices : inv.status = "overdue"})],
            "s_recent")
    /\ UNCHANGED <<clients, items, invoices, invoice_items, nextInvoiceId, now, calls, lastCreated>>

\* select the recent invoices and return the summary
getDashboardSummary_recent(p) ==
    /\ call[p].pc = "s_recent"
    /\ ReturnValue(p, [call[p] EXCEPT !.result = RecentInvoices])
    /\ UNCHANGED <<clients, items, invoices, invoice_items, nextInvoiceId, now, calls, lastCreated>>

\* ------------------------------------------------------------- failures

\* the statement a handler awaits is rejected by the database (connection lost,
\* numeric field overflow, ...): the catch block logs and rethrows, nothing is undone
dbFailure(p) ==
    /\ ~AtRest(p)
    /\ Return(p, call[p], "db error")
    /\ UNCHANGED <<clients, items, invoices, invoice_items, nextInvoiceId, now, calls, lastCreated>>

\* --------------------------------------------------------------- inputs

Item(i, q, u) == [item_id |-> i, quantity |-> q, unit_price |-> u]

\* the items[] of the requests of Spec: one line, and the two lines of the
\* example of the tests (2 x 10.00 and 1 x 15.00)
ItemLists == {<<Item(1, 100, 1000)>>, <<Item(1, 200, 1000), Item(2, 100, 1500)>>}

Discounts == {0, 500}

CreateInputs ==
    [client_id : ClientIds, discount : Discounts, items : ItemLists, notes : {NullNotes},
     invoice_date : {1}, due_date : {2}]

UpdateInputs ==
    [id : InvoiceIds, client_id : {NoValue} \cup ClientIds, discount : {NoValue},
     items : ItemLists, has_items : {TRUE}, notes : {NoValue},
     invoice_date : {NoValue}, due_date : {NoValue}]
    \cup [id : InvoiceIds, client_id : {NoValue} \cup ClientIds,
          discount : {NoValue} \cup Discounts, items : {<<>>}, has_items : {FALSE},
          notes : {NoValue}, invoice_date : {NoValue}, due_date : {NoValue}]

StatusInputs == [id : InvoiceIds, status : {"paid"}]

\* ------------------------------------------------------- specifications

\* requests run concurrently, and any awaited statement may be rejected
Next ==
    \/ Tick
    \/ \E p \in Procs :
        \/ createInvoice_selectClient(p, FALSE, CreateInputs)
        \/ createInvoice_selectItems(p)
        \/ createInvoice_selectLast(p)
        \/ createInvoice_insertInvoice(p)
        \/ createInvoice_insertItems(p)
        \/ updateInvoice_selectInvoice(p, FALSE, UpdateInputs)
        \/ updateInvoice_selectClient(p)
        \/ updateInvoice_selectItems(p)
        \/ updateInvoice_deleteItems(p)
        \/ updateInvoice_insertItems(p)
        \/ updateInvoice_update(p)
        \/ updateInvoiceStatus(p, FALSE, StatusInputs)
        \/ deleteInvoice_deleteItems(p, FALSE, InvoiceIds)
        \/ deleteInvoice_deleteInvoice(p)
        \/ deleteClient_count(p, FALSE, ClientIds)
        \/ deleteClient_delete(p)
        \/ deleteItem_select(p, FALSE, ItemIds)
        \/ deleteItem_delete(p)
        \/ dbFailure(p)

Spec == Init /\ [][Next]_vars

\* the lines a request of SeqSpec may carry: the two of the example of the tests,
\* and half a unit of an item priced 0.01
SeqItemLists == ItemLists \cup {<<Item(2, 50, 1)>>}

SeqCreateInputs ==
    [client_id : ClientIds, discount : Discounts, items : SeqItemLists, notes : {NullNotes},
     invoice_date : {1}, due_date : {2}]

SeqUpdateInputs ==
    [id : InvoiceIds, client_id : {NoValue} \cup ClientIds,
     discount : {NoValue} \cup Discounts, items : SeqItemLists, has_items : {TRUE},
     notes : {NoValue}, invoice_date : {NoValue}, due_date : {NoValue}]
    \cup [id : InvoiceIds, client_id : {NoValue} \cup ClientIds,
          discount : {NoValue} \cup Discounts, items : {<<>>}, has_items : {FALSE},
          notes : {NoValue}, invoice_date : {NoValue}, due_date : {NoValue}]

SeqStatusInputs == [id : InvoiceIds, status : {"paid"}]

\* requests run one after the other, each to its end, and no statement is rejected
SeqNext ==
    \/ Tick
    \/ \E p \in Procs :
        \/ createInvoice_selectClient(p, TRUE, SeqCreateInputs)
        \/ createInvoice_selectItems(p)
        \/ createInvoice_selectLast(p)
        \/ createInvoice_insertInvoice(p)
        \/ createInvoice_insertItems(p)
        \/ updateInvoice_selectInvoice(p, TRUE, SeqUpdateInputs)
        \/ updateInvoice_selectClient(p)
        \/ updateInvoice_selectItems(p)
        \/ updateInvoice_deleteItems(p)
        \/ updateInvoice_insertItems(p)
        \/ updateInvoice_update(p)
        \/ updateInvoiceStatus(p, TRUE, SeqStatusInputs)
        \/ deleteInvoice_deleteItems(p, TRUE, InvoiceIds)
        \/ deleteInvoice_deleteInvoice(p)
        \/ deleteClient_count(p, TRUE, ClientIds)
        \/ deleteClient_delete(p)
        \/ deleteItem_select(p, TRUE, ItemIds)
        \/ deleteItem_delete(p)

SeqSpec == Init /\ [][SeqNext]_vars

\* the lines a request of EditSpec may carry: one line, another line, and the
\* same item on two lines
EditItemLists ==
    {<<Item(1, 100, 1000)>>, <<Item(2, 100, 1500)>>, <<Item(1, 100, 1000), Item(1, 200, 1000)>>}

EditCreateInputs ==
    [client_id : ClientIds, discount : {0}, items : EditItemLists, notes : {NullNotes},
     invoice_date : {1}, due_date : {2}]

\* every field of updateInvoiceInputSchema but id is optional: the payloads
\* with any of client_id (0 is a number too), discount and items, and the
\* payloads with only notes, only a date, or notes and both dates
EditUpdateInputs ==
    [id : InvoiceIds, client_id : {NoValue, 0} \cup ClientIds,
     discount : {NoValue, 500}, items : EditItemLists, has_items : {TRUE},
     notes : {NoValue}, invoice_date : {NoValue}, due_date : {NoValue}]
    \cup [id : InvoiceIds, client_id : {NoValue, 0} \cup ClientIds,
          discount : {NoValue, 500}, items : {<<>>}, has_items : {FALSE},
          notes : {NoValue}, invoice_date : {NoValue}, due_date : {NoValue}]
    \cup {[id |-> i, client_id |-> NoValue, discount |-> NoValue, items |-> <<>>,
           has_items |-> FALSE, notes |-> d[1], invoice_date |-> d[2], due_date |-> d[3]] :
              i \in InvoiceIds,
              d \in {<<1, NoValue, NoValue>>, <<NoValue, 3, NoValue>>,
                     <<NoValue, NoValue, 4>>, <<NullNotes, 3, 4>>}}

EditStatusInputs == [id : InvoiceIds, status : Statuses]

\* requests run one after the other, with every optional field of an update both
\* present and absent, every status, and the reads
EditNext ==
    \/ \E p \in Procs :
        \/ createInvoice_selectClient(p, TRUE, EditCreateInputs)
        \/ createInvoice_selectItems(p)
        \/ createInvoice_selectLast(p)
        \/ createInvoice_insertInvoice(p)
        \/ createInvoice_insertItems(p)
        \/ updateInvoice_selectInvoice(p, TRUE, EditUpdateInputs)
        \/ updateInvoice_selectClient(p)
        \/ updateInvoice_selectItems(p)
        \/ updateInvoice_deleteItems(p)
        \/ updateInvoice_insertItems(p)
        \/ updateInvoice_update(p)
        \/ updateInvoiceStatus(p, TRUE, EditStatusInputs)
        \/ deleteInvoice_deleteItems(p, TRUE, InvoiceIds)
        \/ deleteInvoice_deleteInvoice(p)
        \/ deleteClient_count(p, TRUE, ClientIds)
        \/ deleteClient_delete(p)
        \/ deleteItem_select(p, TRUE, ItemIds)
        \/ deleteItem_delete(p)
        \/ getInvoiceById(p, TRUE, InvoiceIds)
        \/ getInvoiceItems(p, TRUE, InvoiceIds)

EditSpec == Init /\ [][EditNext]_vars

\* the store after 9999 invoices were created in month 1 and all but the last
\* were deleted. Ids are opaque keys: the model numbers the rows a run creates
\* from 1, so the row that was there before the run has id 0
RollInit ==
    /\ nextInvoiceId = 1
    /\ clients = ClientIds
    /\ items = ItemIds
    /\ invoices = {[NewInvoice([Idle EXCEPT !.ym = 1, !.number = 9999, !.client_id = 1,
                                             !.discount = 0, !.notes = NullNotes,
                                             !.items = <<Item(1, 100, 1000)>>])
                        EXCEPT !.id = 0]}
    /\ invoice_items = InvoiceItemsData(0, <<Item(1, 100, 1000)>>)
    /\ now = 1
    /\ call = [p \in Procs |-> Idle]
    /\ calls = 0
    /\ lastCreated = <<>>

\* requests that create and delete invoices run one after the other
RollNext ==
    \/ Tick
    \/ \E p \in Procs :
        \/ createInvoice_selectClient(p, TRUE, CreateInputs)
        \/ createInvoice_selectItems(p)
        \/ createInvoice_selectLast(p)
        \/ createInvoice_insertInvoice(p)
        \/ createInvoice_insertItems(p)
        \/ deleteInvoice_deleteItems(p, TRUE, InvoiceIds)
        \/ deleteInvoice_deleteInvoice(p)

RollSpec == RollInit /\ [][RollNext]_vars

\* the lines a request of MoneySpec may carry: the example of the tests,
\* one unit priced 1.00 (less than the discount 5.00), and 0.07 of an item priced 0.07
MoneyItemLists ==
    {<<Item(1, 200, 1000), Item(2, 100, 1500)>>, <<Item(1, 100, 100)>>, <<Item(1, 7, 7)>>}

MoneyCreateInputs ==
    [client_id : ClientIds, discount : Discounts, items : MoneyItemLists, notes : {NullNotes},
     invoice_date : {1}, due_date : {2}]

\* requests that create and delete invoices run one after the other, in one month
MoneyNext ==
    \E p \in Procs :
        \/ createInvoice_selectClient(p, TRUE, MoneyCreateInputs)
        \/ createInvoice_selectItems(p)
        \/ createInvoice_selectLast(p)
        \/ createInvoice_insertInvoice(p)
        \/ createInvoice_insertItems(p)
        \/ deleteInvoice_deleteItems(p, TRUE, InvoiceIds)
        \/ deleteInvoice_deleteInvoice(p)

MoneySpec == Init /\ [][MoneyNext]_vars

RaceCreateInputs ==
    [client_id : {1}, discount : {0}, items : {<<Item(1, 100, 1000)>>}, notes : {NullNotes},
     invoice_date : {1}, due_date : {2}]

RaceUpdateInputs ==
    [id : InvoiceIds, client_id : {2}, discount : {NoValue}, items : {<<Item(2, 100, 1500)>>},
     has_items : {TRUE}, notes : {NoValue}, invoice_date : {NoValue}, due_date : {NoValue}]

RaceStatusInputs == [id : InvoiceIds, status : {"sent"}]

\* the requests run concurrently, reads and the deletion guards among them
RaceNext ==
    \/ \E p \in Procs :
        \/ createInvoice_selectClient(p, FALSE, RaceCreateInputs)
        \/ createInvoice_selectItems(p)
        \/ createInvoice_selectLast(p)
        \/ createInvoice_insertInvoice(p)
        \/ createInvoice_insertItems(p)
        \/ updateInvoice_selectInvoice(p, FALSE, RaceUpdateInputs)
        \/ updateInvoice_selectClient(p)
        \/ updateInvoice_selectItems(p)
        \/ updateInvoice_deleteItems(p)
        \/ updateInvoice_insertItems(p)
        \/ updateInvoice_update(p)
        \/ updateInvoiceStatus(p, FALSE, RaceStatusInputs)
        \/ deleteInvoice_deleteItems(p, FALSE, InvoiceIds)
        \/ deleteInvoice_deleteInvoice(p)
        \/ getInvoiceById(p, FALSE, InvoiceIds)
        \/ getInvoiceItems(p, FALSE, InvoiceIds)
        \/ deleteClient_count(p, FALSE, ClientIds)
        \/ deleteClient_delete(p)
        \/ deleteItem_select(p, FALSE, ItemIds)
        \/ deleteItem_delete(p)

RaceSpec == Init /\ [][RaceNext]_vars

ListCreateInputs ==
    [client_id : ClientIds, discount : {0}, items : {<<Item(1, 100, 1000)>>},
     notes : {NullNotes}, invoice_date : {1}, due_date : {2}]

\* an update to client_id 0, and one to another client with other lines
ListUpdateInputs ==
    [id : InvoiceIds, client_id : {0}, discount : {NoValue}, items : {<<>>},
     has_items : {FALSE}, notes : {NoValue}, invoice_date : {NoValue}, due_date : {NoValue}]
    \cup [id : InvoiceIds, client_id : {2}, discount : {NoValue},
          items : {<<Item(2, 100, 1500)>>}, has_items : {TRUE}, notes : {NoValue},
          invoice_date : {NoValue}, due_date : {NoValue}]

ListStatusInputs == [id : InvoiceIds, status : {"paid", "overdue"}]

\* every field of invoiceFilterSchema is optional; the search texts are a client
\* name as stored and in lower case
ListFilters ==
    [status : {"undefined", "paid"}, client_id : {NoValue, 0, 1},
     search : {<<>>, <<"A", "b">>, <<"a", "b">>}]

\* requests run one after the other, the listing and the dashboard among them
ListNext ==
    \/ \E p \in Procs :
        \/ createInvoice_selectClient(p, TRUE, ListCreateInputs)
        \/ createInvoice_selectItems(p)
        \/ createInvoice_selectLast(p)
        \/ createInvoice_insertInvoice(p)
        \/ createInvoice_insertItems(p)
        \/ updateInvoice_selectInvoice(p, TRUE, ListUpdateInputs)
        \/ updateInvoice_selectClient(p)
        \/ updateInvoice_selectItems(p)
        \/ updateInvoice_deleteItems(p)
        \/ updateInvoice_insertItems(p)
        \/ updateInvoice_update(p)
        \/ updateInvoiceStatus(p, TRUE, ListStatusInputs)
        \/ deleteInvoice_deleteItems(p, TRUE, InvoiceIds)
        \/ deleteInvoice_deleteInvoice(p)
        \/ getInvoices(p, TRUE, ListFilters)
        \/ getDashboardSummary_count(p, TRUE)
        \/ getDashboardSummary_total(p)
        \/ getDashboardSummary_paid(p)
        \/ getDashboardSummary_overdue(p)
        \/ getDashboardSummary_recent(p)

ListSpec == Init /\ [][ListNext]_vars

DashCreateInputs ==
    [client_id : {1}, discount : {0}, items : {<<Item(1, 100, 1000)>>},
     notes : {NullNotes}, invoice_date : {1}, due_date : {2}]

\* the dashboard runs concurrently with requests that create an invoice, set a
\* status or delete an invoice; every invoice references a stored client
DashNext ==
    \E p \in Procs :
        \/ createInvoice_selectClient(p, FALSE, DashCreateInputs)
        \/ createInvoice_selectItems(p)
        \/ createInvoice_selectLast(p)
        \/ createInvoice_insertInvoice(p)
        \/ createInvoice_insertItems(p)
        \/ updateInvoiceStatus(p, FALSE, ListStatusInputs)
        \/ deleteInvoice_deleteItems(p, FALSE, InvoiceIds)
        \/ deleteInvoice_deleteInvoice(p)
        \/ getDashboardSummary_count(p, FALSE)
        \/ getDashboardSummary_total(p)
        \/ getDashboardSummary_paid(p)
        \/ getDashboardSummary_overdue(p)
        \/ getDashboardSummary_recent(p)

DashSpec == Init /\ [][DashNext]_vars

\* --------------------------------------------------------------- claims

Quiescent == \A p \in Procs : AtRest(p)

Stored(id) == \E inv \in invoices : inv.id = id

InvoiceOf(id) == CHOOSE inv \in invoices : inv.id = id

\* C1: whatever the interleaving of createInvoice calls, no two stored invoices
\* carry the same invoice_number
C1_UniqueInvoiceNumbers ==
    \A a, b \in invoices : a.id # b.id => a.invoice_number # b.invoice_number

\* a createInvoice computed a number that a concurrent one had stored meanwhile
C1_Witness ==
    \E p \in Procs : /\ call[p].op = "createInvoice"
                     /\ call[p].outcome = "duplicate key"
                     /\ Cardinality(invoices) >= 1

\* C2: a createInvoice that failed has left neither its invoice nor any of its lines
C2_CreateAllOrNothing ==
    \A p \in Procs :
        (call[p].op = "createInvoice" /\ call[p].pc = "done" /\ call[p].outcome # "ok")
            => ~Stored(call[p].id) /\ ItemsOfInvoice(call[p].id) = <<>>

\* C3: every stored invoice has tax_amount = (subtotal - discount) x 0.11 (at the
\* scale of the column) and total_amount = subtotal - discount + tax_amount, on its
\* own stored subtotal and discount
C3_TotalsFollowStoredDiscount ==
    \A inv \in invoices :
        /\ inv.tax_amount = Numeric2((inv.subtotal - inv.discount) * 11, 100)
        /\ inv.total_amount = inv.subtotal - inv.discount + inv.tax_amount

Abs(n) == IF n >= 0 THEN n ELSE 0 - n

RECURSIVE SumStored(_)
\* the sum of quantity x unit_price over stored lines, in units of 1/10000
SumStored(ls) == IF Len(ls) = 0 THEN 0
                 ELSE ls[1].quantity * ls[1].unit_price + SumStored(Tail(ls))

C5_NoDanglingClient == \A inv \in invoices : inv.client_id \in clients

\* C6: no stored invoice line refers to an item that is not stored
C6_NoDanglingItem == \A k \in 1..Len(invoice_items) : invoice_items[k].item_id \in items

\* C7: once two updateInvoice calls that supplied items for the same invoice have
\* both returned, the lines of the invoice are the items of one of the two, and the
\* subtotal is the one of that call
C7_OneUpdateWins ==
    \A p, q \in Procs :
        (/\ p # q
         /\ call[p].op = "updateInvoice" /\ call[q].op = "updateInvoice"
         /\ call[p].has_items /\ call[q].has_items
         /\ call[p].outcome = "ok" /\ call[q].outcome = "ok"
         /\ call[p].id = call[q].id
         /\ Stored(call[p].id))
        => \E w \in {p, q} :
            /\ ItemsOfInvoice(call[w].id) = InvoiceItemsData(call[w].id, call[w].items)
            /\ InvoiceOf(call[w].id).subtotal = SubtotalOf(call[w].items)

\* C8: after deleteInvoice(id) has returned or failed, either the invoice and lines of
\* it are stored, or neither the invoice nor any line with that invoice_id
C8_DeleteAllOrNothing ==
    \A p \in Procs :
        (call[p].op = "deleteInvoice" /\ call[p].pc = "done")
            => \/ Stored(call[p].id) /\ ItemsOfInvoice(call[p].id) # <<>>
               \/ ~Stored(call[p].id) /\ ItemsOfInvoice(call[p].id) = <<>>

\* C9: when createInvoice returns an invoice right after another createInvoice did,
\* both having read the same month, the new number has the prefix of the previous
\* one and its suffix plus 1
C9_SequentialSuffixes ==
    [][\A p \in Procs :
        (/\ call[p].pc = "c_lines"
         /\ call'[p].outcome = "ok"
         /\ lastCreated # <<>>
         /\ lastCreated.prefix = call[p].ym)
        => /\ lastCreated'.prefix = lastCreated.prefix
           /\ parseInt(lastCreated'.suffix) = parseInt(lastCreated.suffix) + 1]_vars

\* two invoices created in a row in one month are stored
C9_Witness ==
    /\ Quiescent
    /\ lastCreated # <<>>
    /\ lastCreated.suffix = <<0, 0, 0, 2>>
    /\ \E inv \in invoices : /\ inv.invoice_number.prefix = lastCreated.prefix
                             /\ inv.invoice_number.suffix = <<0, 0, 0, 1>>

\* C10: an invoice inserted by a createInvoice that runs alone, while no stored
\* invoice carries the prefix of its month, gets suffix 0001, whatever is stored
\* under other prefixes
C10_MonthlyReset ==
    [][\A p \in Procs :
        (/\ call[p].pc = "c_insert"
         /\ call'[p].pc = "c_lines"
         /\ ~\E inv \in invoices : inv.invoice_number.prefix = call[p].ym)
        => \A inv \in invoices' \ invoices : inv.invoice_number.suffix = <<0, 0, 0, 1>>]_vars

\* the first invoice of a month is stored beside an invoice of the month before
C10_Witness ==
    \E a, b \in invoices : /\ a.invoice_number.prefix < b.invoice_number.prefix
                           /\ a.id < b.id
                           /\ b.invoice_number.suffix = <<0, 0, 0, 1>>

\* C11: every stored invoice_number has a suffix of exactly 4 decimal digits
\* behind the prefix of its month, however many invoices the month has seen
C11_NumberFormat ==
    \A inv \in invoices :
        /\ inv.invoice_number.prefix \in 1..MaxMonth
        /\ Len(inv.invoice_number.suffix) = 4
        /\ \A k \in 1..Len(inv.invoice_number.suffix) : inv.invoice_number.suffix[k] \in 0..9

\* C12: no createInvoice whose client and items exist is failed by a collision
\* on invoice_number
C12_NoCollisionSurfaced ==
    \A p \in Procs :
        (call[p].op = "createInvoice" /\ call[p].pc = "done" /\ ~ItemsMissing(call[p].items))
            => call[p].outcome # "duplicate key"

\* the distinct item ids of a list all exist, and one of them is on two lines
RepeatedExisting(its) ==
    /\ \A k \in 1..Len(its) : its[k].item_id \in items
    /\ \E j, k \in 1..Len(its) : j # k /\ its[j].item_id = its[k].item_id

\* C13: a createInvoice or updateInvoice whose items[] repeats an item_id, every
\* distinct id of which exists, is not rejected by the validation of the items
C13_RepeatedItemAccepted ==
    \A p \in Procs :
        ( /\ call[p].op \in {"createInvoice", "updateInvoice"}
          /\ call[p].pc = "done"
          /\ call[p].has_items
          /\ RepeatedExisting(call[p].items) )
            => call[p].outcome # "One or more items not found"

\* the slot p receives a request in this step
Received(p) ==
    /\ calls' = calls + 1
    /\ AtRest(p)
    /\ \A q \in Procs : q < p => ~AtRest(q)

SomeItemAbsent(its) == \E k \in 1..Len(its) : its[k].item_id \notin items

\* C14: a createInvoice goes past the client check only with an existing client
\* and otherwise fails with 'Client not found'; with an existing client and an
\* item_id that does not exist it fails with the other error, 'One or more items
\* not found'; both failures leave invoices, invoice_items and the serial alone
C14_CreateNotFound ==
    [][\A p \in Procs :
        /\ (Received(p) /\ call'[p].op = "createInvoice") =>
              \/ call'[p].pc = "c_items" /\ call'[p].client_id \in clients
              \/ /\ call'[p].pc = "done"
                 /\ call'[p].outcome = "Client not found"
                 /\ UNCHANGED <<invoices, invoice_items, nextInvoiceId>>
        /\ (call[p].pc = "c_items" /\ call'[p] # call[p] /\ SomeItemAbsent(call[p].items)) =>
              /\ call[p].client_id \in clients
              /\ call'[p].pc = "done"
              /\ call'[p].outcome = "One or more items not found"
              /\ UNCHANGED <<invoices, invoice_items, nextInvoiceId>>
    ]_vars

\* with an invoice stored, a createInvoice failed on an item_id that does not exist
C14_Witness ==
    \E p \in Procs :
        /\ call[p].op = "createInvoice"
        /\ call[p].outcome = "One or more items not found"
        /\ SomeItemAbsent(call[p].items)
        /\ invoices # {}

C16_UnknownInvoiceId ==
    [][\A p \in Procs :
        /\ (Received(p) /\ ~Stored(call'[p].id)) =>
              /\ call'[p].op \in {"updateInvoice", "updateInvoiceStatus"} =>
                    /\ call'[p].pc = "done"
                    /\ call'[p].outcome = "Invoice not found"
                    /\ UNCHANGED <<clients, items, invoices, invoice_items, nextInvoiceId>>
              /\ call'[p].op = "getInvoiceById" =>
                    call'[p].pc = "done" /\ call'[p].outcome = "null"
              /\ call'[p].op = "getInvoiceItems" =>
                    call'[p].pc = "done" /\ call'[p].outcome = "empty list"
              /\ call'[p].op = "deleteInvoice" => call'[p].pc = "d_invoice"
        /\ (call[p].pc = "d_invoice" /\ call'[p] # call[p] /\ ~Stored(call[p].id)) =>
              call'[p].pc = "done" /\ call'[p].outcome = "no success"
    ]_vars

\* an updateInvoice ends well in this step: it is at its update statement and
\* the row is there
UpdateEnds(p) == call[p].pc = "u_update" /\ call'[p].pc = "done" /\ Stored(call[p].id)

\* the row of the invoice after the step
InvoiceAfter(id) == CHOOSE inv \in invoices' : inv.id = id

\* C17: an updateInvoice writes no row before its update statement and, without
\* items, no line at all; its update statement leaves every field whose input
\* is omitted as it was, the invoice_number, id and status in any case, and every
\* other row
C17_OmittedFieldsUnchanged ==
    [][\A p \in Procs :
        /\ (call'[p].op = "updateInvoice" /\ call'[p].pc # "done") => UNCHANGED invoices
        /\ (call'[p].op = "updateInvoice" /\ ~call'[p].has_items) => UNCHANGED invoice_items
        /\ UpdateEnds(p) =>
              LET c == call[p]
                  old == InvoiceOf(c.id)
                  new == InvoiceAfter(c.id)
              IN /\ call'[p].outcome = "ok"
                 /\ invoices' = (invoices \ {old}) \cup {new}
                 /\ new.invoice_number = old.invoice_number
                 /\ new.id = old.id
                 /\ new.status = old.status
                 /\ c.client_id = NoValue => new.client_id = old.client_id
                 /\ c.invoice_date = NoValue => new.invoice_date = old.invoice_date
                 /\ c.due_date = NoValue => new.due_date = old.due_date
                 /\ c.notes = NoValue => new.notes = old.notes
                 /\ c.discount = NoValue => new.discount = old.discount
                 /\ ~c.has_items => /\ new.subtotal = old.subtotal
                                    /\ new.tax_amount = old.tax_amount
                                    /\ new.total_amount = old.total_amount
    ]_vars

\* an updateInvoice without items ended well on an invoice with lines that has
\* the notes of the payload with only notes, and the dates and discount it was
\* created with
C17_Witness ==
    \E p \in Procs :
        /\ call[p].op = "updateInvoice"
        /\ call[p].outcome = "ok"
        /\ ~call[p].has_items
        /\ Stored(call[p].id)
        /\ InvoiceOf(call[p].id).notes = 1
        /\ InvoiceOf(call[p].id).invoice_date = 1
        /\ InvoiceOf(call[p].id).due_date = 2
        /\ InvoiceOf(call[p].id).discount = 0
        /\ InvoiceOf(call[p].id).subtotal > 0
        /\ ItemsOfInvoice(call[p].id) # <<>>

\* the stored lines of an invoice after the step
ItemsAfter(id) == SelectSeq(invoice_items', LAMBDA l : l.invoice_id = id)

\* C18: an updateInvoice with items that ends well leaves exactly the lines of
\* its items, and the totals of these items under the discount of its input or,
\* with none, the discount the row had
C18_ItemsReplaced ==
    [][\A p \in Procs :
        (UpdateEnds(p) /\ call[p].has_items) =>
            LET c == call[p]
                old == InvoiceOf(c.id)
                new == InvoiceAfter(c.id)
                discount == IF c.discount # NoValue THEN c.discount ELSE old.discount
            IN /\ call'[p].outcome = "ok"
               /\ ItemsAfter(c.id) = InvoiceItemsData(c.id, c.items)
               /\ new.subtotal = SubtotalOf(c.items)
               /\ new.discount = discount
               /\ new.tax_amount = TaxAmountOf(c.items, discount)
               /\ new.total_amount = TotalAmountOf(c.items, discount)
    ]_vars

\* an updateInvoice with items and no discount ended well on an invoice that had
\* a discount and other lines
C18_Witness ==
    \E p \in Procs :
        /\ call[p].op = "updateInvoice"
        /\ call[p].outcome = "ok"
        /\ call[p].has_items
        /\ call[p].items = <<Item(2, 100, 1500)>>
        /\ Stored(call[p].id)
        /\ InvoiceOf(call[p].id).discount = 500
        /\ InvoiceOf(call[p].id).total_amount = TotalAmountOf(call[p].items, 500)
        /\ ItemsOfInvoice(call[p].id) = InvoiceItemsData(call[p].id, call[p].items)

\* C19: the row createInvoice inserts has status draft, and updateInvoiceStatus
\* of a stored invoice ends well whatever the status of the row and the status
\* asked for, changing the status of that row and nothing else
C19_AnyStatusTransition ==
    [][\A p \in Procs :
        /\ (call[p].pc = "c_insert" /\ call'[p].pc = "c_lines") =>
              /\ invoices' # invoices
              /\ \A inv \in invoices' \ invoices : inv.status = "draft"
        /\ (Received(p) /\ call'[p].op = "updateInvoiceStatus" /\ Stored(call'[p].id)) =>
              LET old == InvoiceOf(call'[p].id)
              IN /\ call'[p].pc = "done"
                 /\ call'[p].outcome = "ok"
                 /\ invoices' = (invoices \ {old}) \cup {[old EXCEPT !.status = call'[p].status]}
                 /\ UNCHANGED <<clients, items, invoice_items, nextInvoiceId>>
    ]_vars

\* an updateInvoiceStatus set an invoice with lines to draft, the status before
\* every other
C19_Witness ==
    \E p \in Procs :
        /\ call[p].op = "updateInvoiceStatus"
        /\ call[p].outcome = "ok"
        /\ call[p].status = "draft"
        /\ Stored(call[p].id)
        /\ InvoiceOf(call[p].id).status = "draft"
        /\ ItemsOfInvoice(call[p].id) # <<>>

\* C20: deleteInvoice of a stored invoice returns success = true and leaves
\* neither the row nor a line of it; a deleteInvoice of the same id right after
\* changes nothing and returns success = false
C20_DeleteTwice ==
    [][\A p \in Procs :
        /\ (call[p].pc = "d_invoice" /\ call'[p] # call[p] /\ Stored(call[p].id)) =>
              /\ call'[p].pc = "done"
              /\ call'[p].outcome = "success"
              /\ \A inv \in invoices' : inv.id # call[p].id
              /\ ItemsAfter(call[p].id) = <<>>
        /\ ( /\ call[p].op = "deleteInvoice"
             /\ call[p].outcome = "success"
             /\ Received(p)
             /\ call'[p].op = "deleteInvoice"
             /\ call'[p].id = call[p].id ) =>
              /\ ~Stored(call[p].id)
              /\ call'[p].pc = "d_invoice"
              /\ UNCHANGED <<clients, items, invoices, invoice_items, nextInvoiceId>>
        /\ (call[p].pc = "d_invoice" /\ call'[p] # call[p] /\ ~Stored(call[p].id)) =>
              /\ call'[p].pc = "done"
              /\ call'[p].outcome = "no success"
              /\ UNCHANGED <<clients, items, invoices, invoice_items, nextInvoiceId>>
    ]_vars

\* a deleteInvoice returned success = false for an invoice that had been stored
\* and deleted, while another invoice is stored
C20_Witness ==
    \E p \in Procs :
        /\ call[p].op = "deleteInvoice"
        /\ call[p].outcome = "no success"
        /\ call[p].id \in 1..(nextInvoiceId - 1)
        /\ ~Stored(call[p].id)
        /\ invoices # {}

\* a character in lower case
Lower(ch) ==
    CASE ch = "A" -> "a" [] ch = "I" -> "i" [] ch = "N" -> "n" [] ch = "V" -> "v"
      [] ch = "X" -> "x" [] OTHER -> ch

LowerText(text) == [k \in 1..Len(text) |-> Lower(text[k])]

\* the search text is a substring of the invoice_number or of the name of the
\* owning client, letter case apart
SearchMatches(inv, search) ==
    \/ Like(LowerText(Text(inv.invoice_number)), LowerText(search))
    \/ inv.client_id \in clients /\ Like(LowerText(ClientName(inv.client_id)), LowerText(search))

\* the stored invoices that meet every criterion a filter supplies
Satisfying(filter) ==
    {inv \in invoices :
        /\ filter.status # "undefined" => inv.status = filter.status
        /\ filter.client_id # NoValue => inv.client_id = filter.client_id
        /\ filter.search # <<>> => SearchMatches(inv, filter.search)}

\* a sequence of rows lists the set rows once each, newest first
ListsNewestFirst(seq, rows) ==
    /\ Len(seq) = Cardinality(rows)
    /\ {seq[k] : k \in 1..Len(seq)} = rows
    /\ \A j, k \in 1..Len(seq) : j < k => seq[j].id > seq[k].id

\* C21: getInvoices returns the stored invoices that meet every supplied
\* criterion, and only these, newest first
C21_FilterConjunction ==
    \A p \in Procs :
        (call[p].op = "getInvoices" /\ call[p].pc = "done")
            => ListsNewestFirst(call[p].result, Satisfying(call[p].filter))

\* C22: a getInvoices with only a search text returns the same invoices as with
\* that text in lower case: those whose number or client name contains it,
\* letter case apart
C22_SearchIgnoresCase ==
    \A p \in Procs :
        ( /\ call[p].op = "getInvoices" /\ call[p].pc = "done"
          /\ call[p].filter.status = "undefined"
          /\ call[p].filter.client_id = NoValue
          /\ call[p].filter.search # <<>> )
            => {call[p].result[k] : k \in 1..Len(call[p].result)}
                   = {inv \in invoices : SearchMatches(inv, call[p].filter.search)}

\* C23: deleteClient of a stored client with an invoice throws 'Cannot delete
\* client with existing invoices' and keeps the client; of a stored client
\* without invoice it deletes that client and nothing else and succeeds; of an
\* id that no client has it ends with 'Client not found'
C23_DeleteClientGuard ==
    [][\A p \in Procs :
        /\ (Received(p) /\ call'[p].op = "deleteClient") =>
              LET id == call'[p].id
              IN IF id \in clients /\ \E inv \in invoices : inv.client_id = id
                 THEN /\ call'[p].pc = "done"
                      /\ call'[p].outcome = "Cannot delete client with existing invoices"
                      /\ UNCHANGED <<clients, items, invoices, invoice_items>>
                 ELSE /\ call'[p].pc = "k_delete"
                      /\ UNCHANGED <<clients, items, invoices, invoice_items>>
        /\ (call[p].pc = "k_delete" /\ call'[p] # call[p]) =>
              /\ call'[p].pc = "done"
              /\ call'[p].outcome = IF call[p].id \in clients THEN "success"
                                    ELSE "Client not found"
              /\ clients' = clients \ {call[p].id}
              /\ UNCHANGED <<items, invoices, invoice_items>>
    ]_vars

\* C24: deleteItem of a stored item on an invoice line throws 'Cannot delete
\* item that is used in invoices' and keeps the item; of a stored item on no
\* line it deletes that item and nothing else and succeeds; of an id that no
\* item has it ends with 'Item not found'
C24_DeleteItemGuard ==
    [][\A p \in Procs :
        /\ (Received(p) /\ call'[p].op = "deleteItem") =>
              LET id == call'[p].id
              IN IF id \in items /\ \E k \in 1..Len(invoice_items) : invoice_items[k].item_id = id
                 THEN /\ call'[p].pc = "done"
                      /\ call'[p].outcome = "Cannot delete item that is used in invoices"
                      /\ UNCHANGED <<clients, items, invoices, invoice_items>>
                 ELSE /\ call'[p].pc = "i_delete"
                      /\ UNCHANGED <<clients, items, invoices, invoice_items>>
        /\ (call[p].pc = "i_delete" /\ call'[p] # call[p]) =>
              /\ call'[p].pc = "done"
              /\ call'[p].outcome = IF call[p].id \in items THEN "success"
                                    ELSE "Item not found"
              /\ items' = items \ {call[p].id}
              /\ UNCHANGED <<clients, invoices, invoice_items>>
    ]_vars

\* C25: no statement of getDashboardSummary changes the store, and the summary
\* it returns has the number of the stored invoices, the sum of their
\* total_amount, that sum over the paid ones and the number of the overdue ones
C25_DashboardTotals ==
    [][\A p \in Procs :
        /\ call'[p].op = "getDashboardSummary" =>
              UNCHANGED <<clients, items, invoices, invoice_items, nextInvoiceId>>
        /\ (call[p].pc = "s_recent" /\ call'[p] # call[p]) =>
              /\ call'[p].pc = "done"
              /\ call'[p].outcome = "ok"
              /\ call'[p].total_invoices = Cardinality(invoices)
              /\ call'[p].total_amount = SumTotalAmount(invoices)
              /\ call'[p].paid_amount = SumTotalAmount({inv \in invoices : inv.status = "paid"})
              /\ call'[p].overdue_count = Cardinality({inv \in invoices : inv.status = "overdue"})
              /\ invoices = {} => /\ call'[p].total_invoices = 0
                                  /\ call'[p].total_amount = 0
                                  /\ call'[p].paid_amount = 0
                                  /\ call'[p].overdue_count = 0
    ]_vars

\* a summary of two invoices, one of them paid
C25_Witness ==
    \E p \in Procs :
        /\ call[p].op = "getDashboardSummary"
        /\ call[p].pc = "done"
        /\ call[p].total_invoices = 2
        /\ call[p].paid_amount > 0
        /\ call[p].paid_amount < call[p].total_amount

\* C26: the recent_invoices of a summary are min(10, N) of the N stored
\* invoices, newest first, and no stored invoice left out is newer than one listed
C26_RecentInvoices ==
    \A p \in Procs :
        (call[p].op = "getDashboardSummary" /\ call[p].pc = "done") =>
            LET recent == call[p].result
                listed == {recent[k] : k \in 1..Len(recent)}
            IN /\ Len(recent) = IF Cardinality(invoices) < RecentLimit THEN Cardinality(invoices) ELSE RecentLimit
               /\ ListsNewestFirst(recent, listed)
               /\ listed \subseteq invoices
               /\ \A out \in invoices \ listed : \A in \in listed : out.id < in.id

\* n/d rounded to an integer, a half towards plus infinity
HalfUp(n, d) == (2 * n + d) \div (2 * d)

\* C27: the invoice createInvoice stores has tax_amount = (subtotal - discount) x 0.11
\* rounded to the cent, a half rounded up (towards plus infinity or away from
\* zero), and total_amount = subtotal - discount + tax_amount to the cent, also
\* when the discount exceeds the subtotal
C27_CreatedTotals ==
    \A p \in Procs :
        (call[p].op = "createInvoice" /\ call[p].pc \in {"c_lines", "done"}
            /\ call[p].outcome \in {"none", "ok"} /\ Stored(call[p].id)) =>
            LET inv == InvoiceOf(call[p].id)
            IN /\ inv.tax_amount \in {HalfUp((inv.subtotal - inv.discount) * 11, 100),
                                      Numeric2((inv.subtotal - inv.discount) * 11, 100)}
               /\ inv.total_amount = inv.subtotal - inv.discount + inv.tax_amount

\* C28: the number createInvoice allocates is a function of the invoices stored
\* when it reads them: one more than the suffix of the stored number of the month
\* that is last in string order, 1 when the month has none; numbers of deleted
\* invoices play no part, so the number of a deleted last invoice is given again;
\* two stored invoices never hold the same number
C28_NumberFromStoredOnly ==
    [][/\ \A a, b \in invoices' : a.invoice_number = b.invoice_number => a.id = b.id
       /\ \A p \in Procs :
        (call[p].pc = "c_number" /\ call'[p].pc = "c_insert") =>
            LET ym == call[p].ym
                last == {s \in SuffixesOf(ym) : \A t \in SuffixesOf(ym) : ~StrLess(s, t)}
            IN /\ SuffixesOf(ym) = {} => call'[p].number = 1
               /\ SuffixesOf(ym) # {} => \E s \in last : call'[p].number = parseInt(s) + 1
    ]_vars

\* invoice 1, the first of month 1, was deleted, and the invoice created next in
\* that month holds its number INV-1-0001
C28_Witness ==
    \E p \in Procs :
        /\ call[p].op = "createInvoice"
        /\ call[p].pc = "done"
        /\ call[p].outcome = "ok"
        /\ call[p].id = 2
        /\ ~Stored(1)
        /\ InvoiceOf(2).invoice_number = InvoiceNumber(1, 1)

\* C29: the number createInvoice allocates is greater than the number of every
\* suffix stored under the prefix of the month when it reads them, whatever
\* the length of the stored suffixes
C29_AboveEveryStoredSuffix ==
    [][\A p \in Procs :
        (call[p].pc = "c_number" /\ call'[p].pc = "c_insert") =>
            \A s \in SuffixesOf(call[p].ym) : call'[p].number > parseInt(s)
    ]_vars

\* C30: the values of a summary describe one state of the store. While fewer
\* than 10 invoices exist and all of them reference a stored client,
\* recent_invoices lists every invoice of that state, so the four numbers are
\* the aggregates of the invoices listed
C30_OneSnapshot ==
    \A p \in Procs :
        (call[p].op = "getDashboardSummary" /\ call[p].pc = "done") =>
            LET recent == call[p].result
                listed == {recent[k] : k \in 1..Len(recent)}
            IN /\ call[p].total_invoices = Cardinality(listed)
               /\ call[p].total_amount = SumTotalAmount(listed)
               /\ call[p].paid_amount = SumTotalAmount({inv \in listed : inv.status = "paid"})
               /\ call[p].overdue_count = Cardinality({inv \in listed : inv.status = "overdue"})

====
